---- MODULE Spec2Model ----
(***************************************************************************)
(* HidraViz replay/live playback engine: the tick-indexed frame store      *)
(* (SimulationController), the command worker (SimulationWorker.run) and   *)
(* the playback handlers of MainWindow.                                    *)
(*                                                                         *)
(* Two execution contexts share memory: the interactive (Qt GUI) thread    *)
(* runs the MainWindow handlers, the worker thread runs                    *)
(* SimulationWorker.run.  A handler of the interactive thread is one       *)
(* action.  A worker command is one action, except ATOMIC_STEP, whose      *)
(* store write (_capture_frame) and later mutation of the stored frame     *)
(* (new_frame.events = ...) are two actions, because the interactive       *)
(* thread reads the store in between.                                      *)
(*                                                                         *)
(* Not modelled: rendering, the HGL assembler commands, the evolution      *)
(* commands and FETCH_EXP_CHILDREN (collaborators outside the playback     *)
(* core).  The remote server is an environment: every gateway call either  *)
(* returns or raises HidraApiException, chosen nondeterministically.       *)
(***************************************************************************)
EXTENDS Integers, Sequences, FiniteSets, TLC

(***************************************************************************)
(* Bounds of the model.                                                    *)
(***************************************************************************)
\* largest tick the modelled server is stepped to
MaxTick == 2
\* longest command queue the producers fill
MaxQueue == 2
\* number of commands the generic producer of SpecWorker submits
MaxCmds == 3
\* largest tick at which a modelled server experiment starts
MaxInitTick == 1
\* commands the window may have waiting on the queue
MaxPending == 1
\* signals waiting for the interactive thread beyond which the operator and
\* the timer wait
MaxSignals == 2
\* gestures of the operator in one behaviour of Spec
MaxOps == 5

ExpIds == {"A", "B"}
None == "None"
NoTick == -1
NoNode == -1

(***************************************************************************)
(* Events.  A raw events value is what the server or a replay file holds:  *)
(* a list, or a {"$values": list} wrapper; a raw element is a dict, a      *)
(* string holding JSON, a string that is not JSON, or something else.      *)
(* A parsed event is whatever _parse_events appended: a dict, or the value *)
(* json.loads returned for a string, which need not be a dict.             *)
(***************************************************************************)
Event(type, data) == [type |-> type, data |-> data]

\* the number json.loads returns for a string such as "5": a parsed event
\* that is not a dict
JsonNumber(n) == [type |-> "$number", data |-> n]

\* a raw element that is a dict, given by its $type or as the whole dict
RawDict(type) == [form |-> "dict", val |-> Event(type, None)]
RawObject(event) == [form |-> "dict", val |-> event]
\* a raw element that is a string holding a JSON object, or a JSON number
RawJson(type) == [form |-> "json", val |-> type]
RawJsonNumber(n) == [form |-> "jsonnum", val |-> n]
\* a raw element that is a number
RawNumber(n) == [form |-> "number", val |-> n]
RawBadStr(s) == [form |-> "badstr", val |-> s]
RawList(items) == [wrapper |-> "list", items |-> items]
RawValues(items) == [wrapper |-> "values", items |-> items]

\* json.loads(event) for a string element that is valid JSON: the object,
\* or the number
JsonLoads(raw) ==
    IF raw.form = "jsonnum" THEN JsonNumber(raw.val) ELSE Event(raw.val, None)

RECURSIVE ParseItems(_)
ParseItems(items) ==
    IF items = <<>> THEN <<>>
    ELSE LET event == Head(items)
             rest == ParseItems(Tail(items))
         IN  CASE event.form \in {"json", "jsonnum"} -> <<JsonLoads(event)>> \o rest
               [] event.form = "badstr" ->
                      <<Event("InvalidEventFormat", event.val)>> \o rest
               [] event.form = "dict" -> <<event.val>> \o rest
               [] OTHER -> rest

\* SimulationController._parse_events
ParseEvents(raw_events_data) ==
    IF raw_events_data.wrapper = "none"
       \/ (raw_events_data.wrapper = "list" /\ raw_events_data.items = <<>>)
    THEN <<>>
    ELSE LET events_to_process ==
                 IF raw_events_data.wrapper \in {"values", "list"}
                 THEN raw_events_data.items
                 ELSE <<>>
         IN  ParseItems(events_to_process)

\* the raw events the modelled server produces at a tick: a spike at every
\* odd tick, in the {"$values": [...]} form, nothing at an even tick
ServerEvents(tick) ==
    IF tick % 2 = 1 THEN RawValues(<<RawDict("Spike")>>) ELSE RawList(<<>>)

(***************************************************************************)
(* Frames (ReplayFrame).  The snapshot is reduced to the two fields the    *)
(* playback core reads: experimentId and currentTick.                      *)
(***************************************************************************)
ReplayFrame(tick, snapshot, events) ==
    [tick |-> tick, snapshot |-> snapshot, events |-> events]

Snapshot(exp_id, tick) == [experimentId |-> exp_id, currentTick |-> tick]

NoFrame == ReplayFrame(NoTick, Snapshot(None, NoTick), <<>>)

EmptyStore == [e \in {} |-> <<>>]
EmptyFrames == [t \in {} |-> NoFrame]

VARIABLES
    \* ---- remote server (environment) ----
    server,             \* server[e]: raw events of ticks 0..currentTick (index t+1)
    \* ---- SimulationWorker / SimulationController (worker thread) ----
    command_q,          \* queue.Queue of commands
    controller,         \* TRUE iff worker.controller is not None
    data_store,         \* controller._data_store: exp_id -> (tick -> ReplayFrame)
    is_offline,         \* controller.is_offline
    is_running,         \* worker._is_running
    initial_log_level,  \* TRUE iff worker._initial_log_level is truthy
    wpc,                \* position of the worker inside run()
    command,            \* the command dequeued last (being executed when wpc # "get")
    response,           \* atomic_step response held while step_with_inputs runs
    new_frame,          \* frame object _capture_frame returned
    sig_q,              \* emitted signals queued for the interactive thread
    \* ---- observation of the worker (history) ----
    emitted,            \* signals emitted by `command` so far
    calls,              \* gateway calls made by `command` so far
    fault,              \* TRUE iff `command` ended in the loop's `except Exception`
    prev_fault,         \* `fault` of the command dequeued before `command`
    n_put,              \* commands submitted by the generic producer (their numbering)
    \* ---- MainWindow (interactive thread) ----
    selected_exp_id,        \* MainWindow.selected_exp_id (None: "None")
    is_offline_mode,        \* MainWindow.is_offline_mode
    current_display_tick,   \* MainWindow.current_display_tick
    is_playing,             \* MainWindow.is_playing (= play_pause_button checked)
    timer_active,           \* playback_timer.isActive()
    target_tick,            \* MainWindow.target_tick (None: NoTick)
    current_item,           \* exp id of exp_listbox.currentItem() (None: "None")
    exp_listbox,            \* exp ids of the items of exp_listbox
    timeline_range,         \* range of timeline_scrubber and jump_to_tick_input
    shown_frame,            \* the frame _display_frame showed last since the
                            \* session was selected (NoFrame: none yet)
    controls_enabled,       \* controls_panel.isEnabled()
    playback_enabled,       \* playback_box.isEnabled()
    step_enabled,           \* step_button.isEnabled()
    step_back_enabled,      \* step_back_button.isEnabled()
    closed,                 \* closeEvent has run
    staged_input_values,    \* contents of the dict MainWindow.staged_input_values
    selected_input_id,      \* MainWindow.selected_input_id (None: NoNode)
    input_bubbles,          \* node ids of the buttons of input_bubbles_layout
    \* ---- the operator (environment) ----
    n_ops,                  \* gestures the operator has made
    step_failed_playing     \* step_failed was emitted while the window was
                            \* playing, and the operator has made no gesture since

wvars == <<server, command_q, controller, data_store, is_offline, is_running,
           initial_log_level, wpc, command, response, new_frame, sig_q,
           emitted, calls, fault, prev_fault, n_put>>

window == <<selected_exp_id, is_offline_mode, current_display_tick, is_playing,
            timer_active, target_tick, current_item, exp_listbox, timeline_range,
            shown_frame, controls_enabled, playback_enabled, step_enabled,
            step_back_enabled, closed, staged_input_values, selected_input_id,
            input_bubbles>>

\* ---- HidraApiClient._request (one call of the gateway) ----
VARIABLES
    http_response,      \* what session.request met: a response, or a failure
    api_result          \* how _request ended for it

gateway == <<http_response, api_result>>

\* ---- observation of step_with_inputs (history) ----
VARIABLES
    sent_inputs         \* the `inputs` the last atomic_step call was made with

uvars == <<window, n_ops, step_failed_playing, gateway, sent_inputs>>

vars == <<wvars, uvars>>

(***************************************************************************)
(* Commands and signals.                                                   *)
(***************************************************************************)
\* an `inputs` dict (node id -> value) without entries
NoInputs == [n \in {} |-> 0]

\* the value of a command's "inputs" key: a reference to the dict object the
\* window still holds as staged_input_values (ref), or the contents of a
\* dict object the window holds no longer (nobody writes to it any more)
InputsRef == [ref |-> TRUE, val |-> NoInputs]
InputsOf(contents) == [ref |-> FALSE, val |-> contents]

\* a command dict; seq numbers the commands of the generic producer (0: none);
\* requested records the contents of the inputs dict when the command was put
Command(type, exp_id, path, seq) ==
    [type |-> type, exp_id |-> exp_id, path |-> path, seq |-> seq,
     inputs |-> InputsOf(NoInputs), requested |-> NoInputs]

NoCommand == Command(None, None, None, 0)

\* a signal emission: name, its arguments, and the number of the command it
\* was emitted for (stamped when it is emitted)
Signal(name, ok, exp_id, tick, frame, level) ==
    [name |-> name, ok |-> ok, exp_id |-> exp_id, tick |-> tick,
     frame |-> frame, level |-> level, seq |-> 0]

StatusUpdate(level) == Signal("status_update", TRUE, None, NoTick, NoFrame, level)
Result(name, ok) == Signal(name, ok, None, NoTick, NoFrame, None)
ExpSignal(name, exp_id) == Signal(name, TRUE, exp_id, NoTick, NoFrame, None)

\* the worker signals MainWindow.__init__ connects to a slot
ConnectedSignals ==
    {"status_update", "logs_updated", "connection_result", "replay_loaded",
     "replay_saved", "live_status_update", "new_frame_data", "experiment_list",
     "experiment_created", "experiment_deleted", "experiment_selected"}

\* the slots of status_update and logs_updated write the status bar and the
\* log view only, which are not part of the model: their emissions are
\* recorded in `emitted` and not queued
IsConnected(sig) ==
    sig.name \in ConnectedSignals \ {"status_update", "logs_updated"}

\* the commands whose branch in run() starts with
\* `if not self.controller or self.controller.is_offline: continue`
LiveOnlyTypes ==
    {"REFRESH_EXPERIMENTS", "CREATE_EXPERIMENT", "CLONE_EXPERIMENT",
     "DELETE_EXPERIMENT", "RENAME_EXPERIMENT", "REFRESH_HISTORY", "ATOMIC_STEP",
     "EXECUTE_RUN", "GET_LIVE_STATUS"}

(***************************************************************************)
(* Replay files the operator can pick in the connection dialog.            *)
(***************************************************************************)
\* a frame record of a replay file; form "dict" is a JSON object, any other
\* form a JSON value `frame_data.get` cannot be called on
FileFrame(tick, raw_events) ==
    [form |-> "dict", tick |-> tick, snapshot |-> Snapshot("A", tick),
     events |-> raw_events]

BadFileFrame == [form |-> "string"]

ReplayFiles ==
    [good |-> [readable |-> TRUE, experimentId |-> "A",
               frames |-> <<FileFrame(0, RawList(<<>>)),
                            FileFrame(1, RawList(<<RawDict("Spike"),
                                                   RawJsonNumber("5")>>)),
                            FileFrame(2, RawList(<<RawBadStr("not json")>>))>>],
     noid |-> [readable |-> TRUE, experimentId |-> None,
               frames |-> <<FileFrame(0, RawList(<<>>))>>],
     badframe |-> [readable |-> TRUE, experimentId |-> "A",
                   frames |-> <<FileFrame(0, RawList(<<>>)), BadFileFrame>>],
     unreadable |-> [readable |-> FALSE, experimentId |-> None, frames |-> <<>>]]

FilePaths == DOMAIN ReplayFiles

(***************************************************************************)
(* Frame store (SimulationController).                                     *)
(***************************************************************************)
\* max / min of a non-empty set of ticks
MaxOf(S) == CHOOSE x \in S : \A y \in S : y <= x
MinOf(S) == CHOOSE x \in S : \A y \in S : x <= y

\* a store write that leaves a tick already stored as it is
PutFrameKeepsFirst(store, exp_id, frame) ==
    [store EXCEPT ![exp_id] =
        [t \in DOMAIN store[exp_id] \cup {frame.tick} |->
            IF t \in DOMAIN store[exp_id] THEN store[exp_id][t] ELSE frame]]

\* self._data_store[exp_id][tick] = frame
PutFrame(store, exp_id, frame) ==
    [store EXCEPT ![exp_id] =
        [t \in DOMAIN store[exp_id] \cup {frame.tick} |->
            IF t = frame.tick THEN frame ELSE store[exp_id][t]]]

\* a removal that empties the whole store
DropEverySession(store, exp_id) == [e \in {} |-> <<>>]

\* del self._data_store[exp_id] (when present)
DropSession(store, exp_id) ==
    [e \in DOMAIN store \ {exp_id} |-> store[e]]

\* self._data_store[exp_id] = {}
NewSession(store, exp_id) ==
    [e \in DOMAIN store \cup {exp_id} |->
        IF e = exp_id THEN EmptyFrames ELSE store[e]]

\* a session lookup that creates the session it does not find
\* (dict.setdefault)
LookupCreates(store, exp_id) ==
    [value |-> IF exp_id \in DOMAIN store THEN store[exp_id] ELSE EmptyFrames,
     store |-> IF exp_id \in DOMAIN store THEN store ELSE NewSession(store, exp_id)]

\* `self._data_store.get(exp_id, {})`: the frame map it returns and the store
\* it leaves
Lookup(store, exp_id) ==
    [value |-> IF exp_id \in DOMAIN store THEN store[exp_id] ELSE EmptyFrames,
     store |-> store]

\* SimulationController.get_frame on the store `store`
FrameAt(store, exp_id, tick) ==
    LET frames == Lookup(store, exp_id).value
    IN  IF tick \in DOMAIN frames THEN frames[tick] ELSE NoFrame

\* SimulationController.get_frame
get_frame(exp_id, tick) == FrameAt(data_store, exp_id, tick)

\* SimulationController.get_latest_frame
get_latest_frame(exp_id) ==
    IF exp_id \notin DOMAIN data_store \/ DOMAIN data_store[exp_id] = {}
    THEN NoFrame
    ELSE data_store[exp_id][MaxOf(DOMAIN data_store[exp_id])]

\* SimulationController.get_first_frame
get_first_frame(exp_id) ==
    IF exp_id \notin DOMAIN data_store \/ DOMAIN data_store[exp_id] = {}
    THEN NoFrame
    ELSE data_store[exp_id][MinOf(DOMAIN data_store[exp_id])]

\* the frames of a session from the largest tick down
RECURSIVE FramesDescending(_)
FramesDescending(history) ==
    IF DOMAIN history = {} THEN <<>>
    ELSE LET tick == MaxOf(DOMAIN history)
         IN  <<history[tick]>>
             \o FramesDescending([t \in DOMAIN history \ {tick} |-> history[t]])

\* the frames of a session sorted by tick
RECURSIVE SortedFrames(_)
SortedFrames(history) ==
    IF DOMAIN history = {} THEN <<>>
    ELSE LET tick == MinOf(DOMAIN history)
         IN  <<history[tick]>>
             \o SortedFrames([t \in DOMAIN history \ {tick} |-> history[t]])

\* SimulationController.get_full_history on the store `store`
FullHistory(store, exp_id) ==
    IF exp_id \notin DOMAIN store THEN <<>> ELSE SortedFrames(store[exp_id])

\* SimulationController.get_full_history
get_full_history(exp_id) == FullHistory(data_store, exp_id)

\* a latest-tick test that is false at the largest stored tick itself
is_latest_tick_after(exp_id, tick) ==
    IF exp_id \notin DOMAIN data_store \/ DOMAIN data_store[exp_id] = {}
    THEN FALSE
    ELSE tick > MaxOf(DOMAIN data_store[exp_id])

\* a latest-tick test that is true at the largest stored tick only
is_latest_tick_exact(exp_id, tick) ==
    IF exp_id \notin DOMAIN data_store \/ DOMAIN data_store[exp_id] = {}
    THEN FALSE
    ELSE tick = MaxOf(DOMAIN data_store[exp_id])

\* SimulationController.is_latest_tick
is_latest_tick(exp_id, tick) ==
    IF exp_id \notin DOMAIN data_store \/ DOMAIN data_store[exp_id] = {}
    THEN FALSE
    ELSE tick >= MaxOf(DOMAIN data_store[exp_id])

(***************************************************************************)
(* Remote server.  server[e] is the sequence of the raw events of ticks    *)
(* 0..currentTick; the history record of tick t is built from it.          *)
(***************************************************************************)
ServerTick(e) == Len(server[e]) - 1

\* the frame a full-history record of tick t is turned into
\* (_capture_full_history)
HistoryFrame(e, t) ==
    ReplayFrame(t, Snapshot(e, t), ParseEvents(server[e][t + 1]))

\* the frames a session holds after _capture_full_history
HistoryFrames(e) == [t \in 0..ServerTick(e) |-> HistoryFrame(e, t)]

(***************************************************************************)
(* SimulationWorker.run: the loop and its command handlers.                *)
(***************************************************************************)
\* command_q.get(): the item taken and the queue left
QueueGetLifo(q) == [item |-> q[Len(q)], rest |-> SubSeq(q, 1, Len(q) - 1)]
QueueGet(q) == [item |-> Head(q), rest |-> Tail(q)]

\* command_q.put(item)
QueuePut(q, item) == Append(q, item)

\* `while self._is_running:` ... `command = self.command_q.get(timeout=0.1)`
\* returning a command of the given type
Dequeue(type) ==
    /\ is_running
    /\ wpc = "get"
    /\ command_q # <<>>
    /\ QueueGet(command_q).item.type = type
    /\ command' = QueueGet(command_q).item
    /\ command_q' = QueueGet(command_q).rest
    /\ prev_fault' = fault

Stamp(sigs, seq) == [i \in DOMAIN sigs |-> [sigs[i] EXCEPT !.seq = seq]]

\* signal.emit(...) of each element of sigs, in order, by the command cmd; an
\* emission reaches the interactive thread only if a slot is connected
Emit(sigs, cmd) ==
    sig_q' = sig_q \o SelectSeq(Stamp(sigs, cmd.seq), IsConnected)

\* the command ends: back to the top of the loop
EndCommand(sigs, ncalls) ==
    /\ Emit(sigs, command')
    /\ emitted' = sigs
    /\ calls' = ncalls
    /\ fault' = FALSE
    /\ wpc' = "get"

\* a loop that does not survive the exception
EndCommandFaultExits(before, ncalls) ==
    /\ Emit(Append(before, StatusUpdate("critical")), command')
    /\ emitted' = Append(before, StatusUpdate("critical"))
    /\ calls' = ncalls
    /\ fault' = TRUE
    /\ wpc' = "get"
    /\ is_running' = FALSE

\* `except Exception as e:` at the loop boundary, reached after the signals
\* `before` were emitted: one critical status_update, and the loop goes on
EndCommandFault(before, ncalls) ==
    /\ Emit(Append(before, StatusUpdate("critical")), command')
    /\ emitted' = Append(before, StatusUpdate("critical"))
    /\ calls' = ncalls
    /\ fault' = TRUE
    /\ wpc' = "get"
    /\ UNCHANGED is_running

\* the guard without its offline test
SkipsWithoutController == ~controller

\* `if not self.controller or self.controller.is_offline: continue`
SkipsLiveOnly == ~controller \/ is_offline

\* a STOP that leaves the flag set
StopKeepsRunning == TRUE

\* the value `self._is_running = False` stores on STOP
StopSetsRunning == FALSE

\* `if cmd_type == "STOP": self._is_running = False; continue`

W_STOP ==
    /\ Dequeue("STOP")
    /\ is_running' = StopSetsRunning
    /\ emitted' = <<>> /\ calls' = 0 /\ fault' = FALSE
    /\ UNCHANGED <<server, controller, data_store, is_offline, initial_log_level,
                   wpc, response, new_frame, sig_q, n_put, uvars>>

\* `if cmd_type == "CONNECT":`
W_CONNECT ==
    /\ Dequeue("CONNECT")
    /\ \E ok \in BOOLEAN :
         /\ IF ok
            THEN /\ controller' = TRUE
                 /\ data_store' = EmptyStore
                 /\ is_offline' = FALSE
                 /\ initial_log_level' = TRUE
            ELSE UNCHANGED <<controller, data_store, is_offline, initial_log_level>>
         /\ EndCommand(<<Result("connection_result", ok)>>, 1)
    /\ UNCHANGED <<server, is_running, response, new_frame, n_put, uvars>>

\* load_from_file's loop `self._data_store[exp_id][frame.tick] = frame`: the
\* store it leaves, and whether `frame_data.get` raised on a record that is
\* not an object
RECURSIVE LoadFrames(_, _, _)
LoadFrames(store, exp_id, frames_data) ==
    IF frames_data = <<>> THEN [store |-> store, raised |-> FALSE]
    ELSE LET frame_data == Head(frames_data)
         IN  IF frame_data.form # "dict"
             THEN [store |-> store, raised |-> TRUE]
             ELSE LET frame == ReplayFrame(frame_data.tick, frame_data.snapshot,
                                           ParseEvents(frame_data.events))
                  IN  LoadFrames(PutFrame(store, exp_id, frame), exp_id,
                                 Tail(frames_data))

\* SimulationController.load_from_file on a fresh controller, for the
\* contents `data` of the file:
\* [raised, result (exp_id or None), store, is_offline]
LoadData(data) ==
        IF ~data.readable
        THEN [raised |-> TRUE, result |-> None, store |-> EmptyStore,
              is_offline |-> FALSE]
        ELSE IF data.experimentId = None
        THEN [raised |-> FALSE, result |-> None, store |-> EmptyStore,
              is_offline |-> FALSE]
        ELSE LET loop == LoadFrames(NewSession(EmptyStore, data.experimentId),
                                    data.experimentId, data.frames)
             IN  IF loop.raised
                 THEN [raised |-> TRUE, result |-> None, store |-> loop.store,
                       is_offline |-> FALSE]
                 ELSE [raised |-> FALSE, result |-> data.experimentId,
                       store |-> loop.store, is_offline |-> TRUE]

load_from_file(path) == LoadData(ReplayFiles[path])

\* `elif cmd_type == "LOAD_FILE":`
W_LOAD_FILE ==
    /\ Dequeue("LOAD_FILE")
    /\ LET loaded == load_from_file(command'.path)
       IN  /\ controller' = TRUE
           /\ data_store' = loaded.store
           /\ is_offline' = loaded.is_offline
           /\ IF loaded.result # None
              THEN EndCommand(<<ExpSignal("replay_loaded", loaded.result)>>, 0)
              ELSE EndCommand(<<StatusUpdate("error")>>, 0)
    /\ UNCHANGED <<server, is_running, initial_log_level, response, new_frame, n_put, uvars>>

\* a live-only command that makes one gateway call and emits one signal:
\* the skip, the call's success and the HidraApiException branch
W_OneCall(type, on_success, on_error) ==
    /\ Dequeue(type)
    /\ IF SkipsLiveOnly
       THEN EndCommand(<<>>, 0)
       ELSE \E ok \in BOOLEAN :
              EndCommand(IF ok THEN on_success ELSE on_error, 1)
    /\ UNCHANGED <<server, controller, data_store, is_offline, is_running,
                   initial_log_level, response, new_frame, n_put, uvars>>

\* `elif cmd_type == "REFRESH_EXPERIMENTS":`
W_REFRESH_EXPERIMENTS ==
    W_OneCall("REFRESH_EXPERIMENTS", <<Result("experiment_list", TRUE)>>,
              <<StatusUpdate("error")>>)

\* `elif cmd_type == "CREATE_EXPERIMENT":`
W_CREATE_EXPERIMENT ==
    W_OneCall("CREATE_EXPERIMENT", <<ExpSignal("experiment_created", "B")>>,
              <<StatusUpdate("error")>>)

\* `elif cmd_type == "CLONE_EXPERIMENT":`
W_CLONE_EXPERIMENT ==
    W_OneCall("CLONE_EXPERIMENT", <<ExpSignal("experiment_created", "B")>>,
              <<StatusUpdate("error")>>)

\* `elif cmd_type == "DELETE_EXPERIMENT":`
W_DELETE_EXPERIMENT ==
    W_OneCall("DELETE_EXPERIMENT",
              <<ExpSignal("experiment_deleted", command'.exp_id)>>,
              <<StatusUpdate("error")>>)

\* `elif cmd_type == "RENAME_EXPERIMENT":` rename, then list
W_RENAME_EXPERIMENT ==
    /\ Dequeue("RENAME_EXPERIMENT")
    /\ IF SkipsLiveOnly
       THEN EndCommand(<<>>, 0)
       ELSE \E rename_ok, list_ok \in BOOLEAN :
              IF ~rename_ok
              THEN EndCommand(<<StatusUpdate("error")>>, 1)
              ELSE IF ~list_ok
              THEN EndCommand(<<StatusUpdate("success"), StatusUpdate("error")>>, 2)
              ELSE EndCommand(<<StatusUpdate("success"),
                                Result("experiment_list", TRUE)>>, 2)
    /\ UNCHANGED <<server, controller, data_store, is_offline, is_running,
                   initial_log_level, response, new_frame, n_put, uvars>>

\* json.dump of a parsed event: a dict is written as an object, a number
\* as a number
DumpEvent(event) ==
    IF event.type = "$number" THEN RawNumber(event.data) ELSE RawObject(event)

\* asdict(frame) as json.dump writes it: a frame record of the file
FrameAsDict(frame) ==
    [form |-> "dict", tick |-> frame.tick, snapshot |-> frame.snapshot,
     events |-> RawList([i \in 1..Len(frame.events) |-> DumpEvent(frame.events[i])])]

\* SimulationController.save_replay_to_file: whether it raised ValueError
\* and the contents of the file it wrote
save_replay_to_file(exp_id) ==
    LET history == get_full_history(exp_id)
    IN  IF history = <<>>
        THEN [raised |-> TRUE, data |-> ReplayFiles.unreadable]
        ELSE [raised |-> FALSE,
              data |-> [readable |-> TRUE,
                        experimentId |-> history[1].snapshot.experimentId,
                        frames |-> [i \in 1..Len(history) |->
                                       FrameAsDict(history[i])]]]

\* `elif cmd_type == "SAVE_REPLAY":` save_replay_to_file raises ValueError on
\* an empty history, IOError when the file cannot be written
W_SAVE_REPLAY ==
    /\ Dequeue("SAVE_REPLAY")
    /\ IF ~controller
       THEN EndCommand(<<>>, 0)
       ELSE IF get_first_frame(command'.exp_id) = NoFrame
       THEN EndCommand(<<StatusUpdate("error")>>, 0)
       ELSE \E written \in BOOLEAN :
              EndCommand(IF written THEN <<Result("replay_saved", TRUE)>>
                                    ELSE <<StatusUpdate("error")>>, 0)
    /\ UNCHANGED <<server, controller, data_store, is_offline, is_running,
                   initial_log_level, response, new_frame, n_put, uvars>>

\* SimulationController.connect(exp_id): the store and flag it leaves, and
\* its result, for the outcomes of get_status and get_full_history
connect(exp_id, status_ok, history_ok) ==
    LET dropped == DropSession(data_store, exp_id)
    IN  IF ~status_ok
        THEN [result |-> FALSE, store |-> dropped, is_offline |-> is_offline,
              ncalls |-> 1]
        ELSE IF ~history_ok
        THEN [result |-> FALSE, store |-> NewSession(dropped, exp_id),
              is_offline |-> FALSE, ncalls |-> 2]
        ELSE [result |-> TRUE,
              store |-> [e \in DOMAIN dropped \cup {exp_id} |->
                            IF e = exp_id THEN HistoryFrames(exp_id)
                            ELSE dropped[e]],
              is_offline |-> FALSE, ncalls |-> 2]

\* SimulationController.disconnect(exp_id): the store it leaves
disconnect(exp_id) == DropSession(data_store, exp_id)

\* `elif cmd_type == "SELECT_EXPERIMENT":`
W_SELECT_EXPERIMENT ==
    /\ Dequeue("SELECT_EXPERIMENT")
    /\ IF ~controller
       THEN /\ EndCommand(<<StatusUpdate("error")>>, 0)
            /\ UNCHANGED <<data_store, is_offline, initial_log_level>>
       ELSE \E status_ok, history_ok, level_ok \in BOOLEAN :
              LET c == connect(command'.exp_id, status_ok, history_ok)
                  selected == ExpSignal("experiment_selected", command'.exp_id)
              IN  /\ data_store' = c.store
                  /\ is_offline' = c.is_offline
                  /\ IF ~c.result
                     THEN /\ EndCommand(<<StatusUpdate("error")>>, c.ncalls)
                          /\ UNCHANGED initial_log_level
                     ELSE IF ~initial_log_level
                     THEN /\ EndCommand(<<selected>>, c.ncalls)
                          /\ UNCHANGED initial_log_level
                     ELSE IF level_ok
                     THEN /\ EndCommand(<<StatusUpdate("info"), selected>>,
                                        c.ncalls + 1)
                          /\ initial_log_level' = FALSE
                     ELSE /\ EndCommand(<<StatusUpdate("error"), selected>>,
                                        c.ncalls + 1)
                          /\ UNCHANGED initial_log_level
    /\ UNCHANGED <<server, controller, is_running, response, new_frame, n_put, uvars>>

\* `elif cmd_type == "REFRESH_HISTORY":` SimulationController defines no
\* refresh_history, so the call raises AttributeError, which the handler's
\* `except HidraApiException` does not catch
W_REFRESH_HISTORY ==
    /\ Dequeue("REFRESH_HISTORY")
    /\ IF SkipsLiveOnly
       THEN EndCommand(<<>>, 0) /\ UNCHANGED is_running
       ELSE EndCommandFault(<<>>, 0)
    /\ UNCHANGED <<server, controller, data_store, is_offline,
                   initial_log_level, response, new_frame, n_put, uvars>>

\* the contents of the dict `command["inputs"]` when atomic_step is called
\* with it
Resolve(inputs) == IF inputs.ref THEN staged_input_values ELSE inputs.val

\* `elif cmd_type == "ATOMIC_STEP":` up to the return of _capture_frame inside
\* step_with_inputs: the atomic_step call, the snapshot call, the store write
\* of a frame whose events are still []
W_ATOMIC_STEP ==
    /\ Dequeue("ATOMIC_STEP")
    /\ LET exp_id == command'.exp_id
           failed == <<Result("step_failed", FALSE)>>
       IN  IF SkipsLiveOnly
           THEN /\ EndCommand(<<>>, 0)
                /\ UNCHANGED <<server, data_store, response, new_frame>>
           ELSE IF is_offline \/ exp_id \notin DOMAIN data_store
           THEN /\ EndCommand(failed, 0)
                /\ UNCHANGED <<server, data_store, response, new_frame>>
           ELSE \E step_ok, snapshot_ok \in BOOLEAN,
                   events \in {ServerEvents(ServerTick(exp_id) + 1)} :
                  IF ~step_ok \/ ServerTick(exp_id) >= MaxTick
                  THEN /\ EndCommand(failed, 1)
                       /\ UNCHANGED <<server, data_store, response, new_frame>>
                  ELSE /\ server' = [server EXCEPT ![exp_id] = Append(@, events)]
                       /\ IF ~snapshot_ok
                          THEN /\ EndCommand(failed, 2)
                               /\ UNCHANGED <<data_store, response, new_frame>>
                          ELSE LET current_tick == ServerTick(exp_id) + 1
                                   frame == ReplayFrame(current_tick,
                                                Snapshot(exp_id, current_tick), <<>>)
                               IN  /\ data_store' = PutFrame(data_store, exp_id, frame)
                                   /\ new_frame' = frame
                                   /\ response' = events
                                   /\ wpc' = "captured"
                                   /\ emitted' = <<>>
                                   /\ calls' = 2
                                   /\ fault' = FALSE
                                   /\ UNCHANGED sig_q
    /\ step_failed_playing' =
           (step_failed_playing
            \/ (is_playing /\ \E i \in DOMAIN emitted' :
                                 emitted'[i].name = "step_failed"))
    /\ sent_inputs' = (IF calls' >= 1 THEN Resolve(command'.inputs)
                       ELSE sent_inputs)
    /\ UNCHANGED <<controller, is_offline, is_running, initial_log_level, n_put,
                   window, n_ops, gateway>>

\* the rest of ATOMIC_STEP: `new_frame.events = self._parse_events(...)` on the
\* frame object the store already holds, new_frame_data.emit, get_logs
W_ATOMIC_STEP_events ==
    /\ wpc = "captured"
    /\ LET exp_id == command.exp_id
           frame == [new_frame EXCEPT !.events = ParseEvents(response)]
       IN  /\ data_store' = PutFrame(data_store, exp_id, frame)
           /\ new_frame' = NoFrame
           /\ response' = RawList(<<>>)
           /\ \E logs_ok \in BOOLEAN :
                LET sigs == IF logs_ok
                            THEN <<Signal("new_frame_data", TRUE, None, NoTick,
                                          frame, None),
                                   Result("logs_updated", TRUE)>>
                            ELSE <<Signal("new_frame_data", TRUE, None, NoTick,
                                          frame, None)>>
                IN  /\ Emit(sigs, command)
                    /\ emitted' = sigs
                    /\ calls' = 3
                    /\ wpc' = "get"
    /\ UNCHANGED <<server, command_q, controller, is_offline, is_running,
                   initial_log_level, command, fault, prev_fault, n_put, uvars>>

\* `elif cmd_type == "EXECUTE_RUN":` the run itself executes on the server
\* after create_run returned; its progress is not part of the handler
W_EXECUTE_RUN ==
    W_OneCall("EXECUTE_RUN",
              <<StatusUpdate("info"), Result("run_execution_result", TRUE)>>,
              <<Result("run_execution_result", FALSE), StatusUpdate("error")>>)

\* `elif cmd_type == "GET_LIVE_STATUS":`
W_GET_LIVE_STATUS ==
    /\ Dequeue("GET_LIVE_STATUS")
    /\ IF SkipsLiveOnly \/ command'.exp_id = None
       THEN EndCommand(<<>>, 0)
       ELSE \E ok \in BOOLEAN :
              EndCommand(IF ok
                         THEN <<Signal("live_status_update", TRUE, command'.exp_id,
                                       ServerTick(command'.exp_id), NoFrame, None)>>
                         ELSE <<StatusUpdate("error")>>, 1)
    /\ UNCHANGED <<server, controller, data_store, is_offline, is_running,
                   initial_log_level, response, new_frame, n_put, uvars>>

\* the command types run() has a branch for (of those modelled)
HandledTypes ==
    LiveOnlyTypes \cup {"STOP", "CONNECT", "LOAD_FILE", "SAVE_REPLAY",
                        "SELECT_EXPERIMENT"}

\* a command no branch of run() matches, such as the SET_LOG_LEVEL command
\* MainWindow.on_log_level_changed puts: the if/elif chain falls through
W_unrecognised ==
    /\ \E type \in {"SET_LOG_LEVEL"} : Dequeue(type)
    /\ EndCommand(<<>>, 0)
    /\ UNCHANGED <<server, controller, data_store, is_offline, is_running,
                   initial_log_level, response, new_frame, n_put, uvars>>

Worker ==
    \/ W_STOP
    \/ W_CONNECT
    \/ W_LOAD_FILE
    \/ W_REFRESH_EXPERIMENTS
    \/ W_CREATE_EXPERIMENT
    \/ W_CLONE_EXPERIMENT
    \/ W_DELETE_EXPERIMENT
    \/ W_RENAME_EXPERIMENT
    \/ W_SAVE_REPLAY
    \/ W_SELECT_EXPERIMENT
    \/ W_REFRESH_HISTORY
    \/ W_ATOMIC_STEP
    \/ W_ATOMIC_STEP_events
    \/ W_EXECUTE_RUN
    \/ W_GET_LIVE_STATUS
    \/ W_unrecognised

(***************************************************************************)
(* Initial state: MainWindow.__init__ has built the worker; nothing is     *)
(* connected.  The server holds each experiment at some tick.              *)
(***************************************************************************)
\* the history of a server experiment that has run to tick n
InitHistory(n) == [i \in 1..(n + 1) |-> ServerEvents(i - 1)]

WorkerInit ==
    /\ server = [e \in ExpIds |-> IF e = "A" THEN InitHistory(0)
                                  ELSE InitHistory(MaxInitTick)]
    /\ command_q = <<>>
    /\ controller = FALSE
    /\ data_store = EmptyStore
    /\ is_offline = FALSE
    /\ is_running = TRUE
    /\ initial_log_level = TRUE
    /\ wpc = "get"
    /\ command = NoCommand
    /\ response = RawList(<<>>)
    /\ new_frame = NoFrame
    /\ sig_q = <<>>
    /\ emitted = <<>>
    /\ calls = 0
    /\ fault = FALSE
    /\ prev_fault = FALSE
    /\ n_put = 0
    /\ sent_inputs = NoInputs

(***************************************************************************)
(* MainWindow: the handlers of the interactive thread.  A handler is a     *)
(* function from the window's fields (a record u) to the fields it leaves; *)
(* u.puts collects the commands it puts on the command queue.  Handlers    *)
(* read the worker's controller and its store directly, as the code does   *)
(* through self.worker.controller.                                         *)
(***************************************************************************)
Window ==
    [selected_exp_id |-> selected_exp_id,
     is_offline_mode |-> is_offline_mode,
     current_display_tick |-> current_display_tick,
     is_playing |-> is_playing,
     timer_active |-> timer_active,
     target_tick |-> target_tick,
     current_item |-> current_item,
     exp_listbox |-> exp_listbox,
     timeline_range |-> timeline_range,
     shown_frame |-> shown_frame,
     controls_enabled |-> controls_enabled,
     playback_enabled |-> playback_enabled,
     step_enabled |-> step_enabled,
     step_back_enabled |-> step_back_enabled,
     closed |-> closed,
     staged_input_values |-> staged_input_values,
     selected_input_id |-> selected_input_id,
     input_bubbles |-> input_bubbles,
     dropped |-> <<>>,
     puts |-> <<>>]

\* self.command_queue.put(cmd)
put(u, cmd) == [u EXCEPT !.puts = QueuePut(@, cmd)]

\* MainWindow._update_timeline_range
update_timeline_range(u) ==
    IF ~controller \/ u.selected_exp_id = None THEN u
    ELSE IF get_first_frame(u.selected_exp_id) = NoFrame
    THEN [u EXCEPT !.timeline_range = <<0, 0>>]
    ELSE [u EXCEPT !.timeline_range =
              <<get_first_frame(u.selected_exp_id).tick,
                get_latest_frame(u.selected_exp_id).tick>>]

\* MainWindow._update_step_buttons
update_step_buttons(u) ==
    IF u.selected_exp_id = None \/ ~controller
    THEN [u EXCEPT !.step_enabled = FALSE, !.step_back_enabled = FALSE]
    ELSE LET has_next ==
                 get_frame(u.selected_exp_id, u.current_display_tick + 1) # NoFrame
             is_at_latest ==
                 is_latest_tick(u.selected_exp_id, u.current_display_tick)
         IN  [u EXCEPT
                 !.step_enabled = has_next \/ (~u.is_offline_mode /\ is_at_latest),
                 !.step_back_enabled =
                     get_frame(u.selected_exp_id, u.current_display_tick - 1)
                         # NoFrame]

\* snapshot.get('inputNodeIds', []): every experiment of the modelled server
\* and of the replay files has the one input node 0
InputNodeIds(snapshot) == {0}

\* the commands whose "inputs" is the dict object the window drops keep that
\* object, with the contents it had
Freeze(q, contents) ==
    [i \in DOMAIN q |->
        IF q[i].inputs.ref THEN [q[i] EXCEPT !.inputs = InputsOf(contents)]
        ELSE q[i]]

\* MainWindow._update_io_panel: when the input nodes of the frame are not
\* those of the bubbles, `self.staged_input_values = {nid: 0.0 ...}` binds a
\* new dict object (u.dropped: the contents of the object left behind)
update_io_panel(u, frame) ==
    LET input_ids == InputNodeIds(frame.snapshot)
    IN  IF input_ids # u.input_bubbles
        THEN [u EXCEPT
                 !.dropped = IF @ = <<>> THEN <<u.staged_input_values>> ELSE @,
                 !.puts = Freeze(@, u.staged_input_values),
                 !.staged_input_values = [nid \in input_ids |-> 0],
                 !.selected_input_id = IF @ \in input_ids THEN @ ELSE NoNode,
                 !.input_bubbles = input_ids]
        ELSE u

\* MainWindow._display_frame
display_frame(u, frame) ==
    IF frame = NoFrame THEN u
    ELSE update_step_buttons(
             update_io_panel(
                 [u EXCEPT !.current_display_tick = frame.tick,
                           !.shown_frame = frame],
                 frame))

\* MainWindow._set_and_display_tick
set_and_display_tick(u, tick) ==
    IF controller /\ u.selected_exp_id # None
    THEN display_frame(u, get_frame(u.selected_exp_id, tick))
    ELSE u

\* {"type": "ATOMIC_STEP", "exp_id": ..., "inputs": self.staged_input_values}:
\* the command holds the window's dict object itself, not a copy
AtomicStep(exp_id, staged) ==
    [Command("ATOMIC_STEP", exp_id, None, 0) EXCEPT
        !.inputs = InputsRef, !.requested = staged]

\* MainWindow._execute_step_forward
execute_step_forward(u) ==
    IF u.selected_exp_id = None \/ ~controller THEN u
    ELSE IF ~u.is_offline_mode
            /\ is_latest_tick(u.selected_exp_id, u.current_display_tick)
    THEN put(u, AtomicStep(u.selected_exp_id, u.staged_input_values))
    ELSE set_and_display_tick(u, u.current_display_tick + 1)

\* MainWindow.on_play_pause_toggled(False): play_pause_button.setChecked(False)
\* while the button is checked
pause(u) ==
    IF u.is_playing
    THEN [u EXCEPT !.is_playing = FALSE, !.timer_active = FALSE]
    ELSE u

\* MainWindow._on_playback_tick
on_playback_tick(u) ==
    IF ~u.is_playing THEN [u EXCEPT !.timer_active = FALSE]
    ELSE IF u.target_tick # NoTick /\ u.current_display_tick >= u.target_tick
    THEN [pause(u) EXCEPT !.target_tick = NoTick]
    ELSE execute_step_forward(u)

\* MainWindow.on_play_pause_toggled(True): play_pause_button.setChecked(True)
\* while the button is not checked
play(u) ==
    IF u.is_playing THEN u
    ELSE on_playback_tick([u EXCEPT !.is_playing = TRUE, !.timer_active = TRUE])

\* MainWindow.on_experiment_selected
on_experiment_selected(u, exp_id) ==
    LET v == update_timeline_range(
                 [u EXCEPT !.selected_exp_id = exp_id, !.shown_frame = NoFrame])
    IN  IF v.is_offline_mode
        THEN display_frame(v, get_first_frame(exp_id))
        ELSE display_frame(v, get_latest_frame(exp_id))

\* MainWindow.select_experiment, the slot of exp_listbox.currentItemChanged
select_experiment(u, exp_id) ==
    IF exp_id = None
    THEN [u EXCEPT !.selected_exp_id = None, !.playback_enabled = FALSE,
                   !.shown_frame = NoFrame]
    ELSE IF u.selected_exp_id = exp_id THEN u
    ELSE LET v == pause([u EXCEPT !.staged_input_values = NoInputs,
                                  !.selected_input_id = NoNode,
                                  !.input_bubbles = {},
                                  !.playback_enabled = TRUE])
         IN  IF v.is_offline_mode
             THEN on_experiment_selected(v, exp_id)
             ELSE put(v, Command("SELECT_EXPERIMENT", exp_id, None, 0))

\* exp_listbox.clear(): emits currentItemChanged(None) if an item was current
listbox_clear(u) ==
    LET v == [u EXCEPT !.exp_listbox = {}, !.current_item = None]
    IN  IF u.current_item # None THEN select_experiment(v, None) ELSE v

\* exp_listbox.setCurrentItem(item): emits currentItemChanged if it changes
set_current_item(u, exp_id) ==
    IF u.current_item = exp_id THEN u
    ELSE select_experiment([u EXCEPT !.current_item = exp_id], exp_id)

\* MainWindow.refresh_experiment_list
refresh_experiment_list(u) ==
    IF ~u.is_offline_mode
    THEN put(u, Command("REFRESH_EXPERIMENTS", None, None, 0))
    ELSE u

\* MainWindow.show_connection_dialog, the dialog accepted with `details`
show_connection_dialog(u, details) ==
    put([listbox_clear(pause(u)) EXCEPT !.controls_enabled = FALSE], details)

\* MainWindow.on_connection_result
on_connection_result(u, success) ==
    IF success
    THEN refresh_experiment_list(
             [u EXCEPT !.is_offline_mode = FALSE, !.controls_enabled = TRUE])
    ELSE [u EXCEPT !.controls_enabled = FALSE]

\* MainWindow.on_replay_loaded
on_replay_loaded(u, exp_id) ==
    LET v == listbox_clear(
                 [u EXCEPT !.is_offline_mode = TRUE, !.controls_enabled = TRUE])
    IN  set_current_item([v EXCEPT !.exp_listbox = {exp_id}], exp_id)

\* MainWindow.on_experiment_list_received; id_to_select_after_refresh is None
\* because no experiment is created or cloned in this model
on_experiment_list_received(u, experiments) ==
    LET id_to_select == u.current_item
        v == [listbox_clear(u) EXCEPT !.exp_listbox = experiments]
    IN  IF id_to_select \in experiments
        THEN set_current_item(v, id_to_select)
        ELSE [v EXCEPT !.selected_exp_id = None, !.playback_enabled = FALSE,
                       !.shown_frame = NoFrame]

\* MainWindow.on_live_status_received
on_live_status_received(u, latest_server_tick) ==
    IF latest_server_tick > u.current_display_tick
    THEN play([u EXCEPT !.target_tick = latest_server_tick])
    ELSE u

\* MainWindow.on_new_frame_data
on_new_frame_data(u, frame) ==
    display_frame(update_timeline_range(u), frame)

\* a stop that leaves the target as it is
stop_keeps_target(u) ==
    LET v == pause(u)
    IN  IF controller /\ v.selected_exp_id # None
           /\ get_first_frame(v.selected_exp_id) # NoFrame
        THEN set_and_display_tick(v, get_first_frame(v.selected_exp_id).tick)
        ELSE v

\* MainWindow.stop_playback
stop_playback(u) ==
    LET v == [pause(u) EXCEPT !.target_tick = NoTick]
    IN  IF controller /\ v.selected_exp_id # None
           /\ get_first_frame(v.selected_exp_id) # NoFrame
        THEN set_and_display_tick(v, get_first_frame(v.selected_exp_id).tick)
        ELSE v

\* a jump that leaves auto-play running
jump_keeps_playing(u, value) == set_and_display_tick(u, value)

\* MainWindow.jump_to_tick and MainWindow.on_scrubber_released, with the
\* value of the spin box or of the scrubber
jump_to_tick(u, value) == set_and_display_tick(pause(u), value)

\* MainWindow.play_until_specified, with the value of the spin box
play_until_specified(u, target) ==
    IF target > u.current_display_tick
    THEN play([u EXCEPT !.target_tick = target])
    ELSE u

\* MainWindow.play_until_latest
play_until_latest(u) ==
    IF u.is_offline_mode \/ u.selected_exp_id = None THEN u
    ELSE put(u, Command("GET_LIVE_STATUS", u.selected_exp_id, None, 0))

\* a step backward that moves the displayed tick down whether or not the
\* frame is cached
step_backward_unchecked(u) ==
    LET v == pause(u)
    IN  IF v.selected_exp_id = None THEN v
        ELSE [v EXCEPT !.current_display_tick = @ - 1]

\* MainWindow.step_backward
step_backward(u) ==
    LET v == pause(u)
    IN  IF v.selected_exp_id = None THEN v
        ELSE set_and_display_tick(v, v.current_display_tick - 1)

\* a step forward that leaves auto-play running
step_forward_keeps_playing(u) == execute_step_forward(u)

\* MainWindow.step_forward
step_forward(u) == execute_step_forward(pause(u))

\* MainWindow.on_log_level_changed
on_log_level_changed(u) ==
    IF u.selected_exp_id = None \/ u.is_offline_mode THEN u
    ELSE put(u, Command("SET_LOG_LEVEL", u.selected_exp_id, None, 0))

\* MainWindow.on_input_bubble_clicked
on_input_bubble_clicked(u, node_id) == [u EXCEPT !.selected_input_id = node_id]

\* MainWindow.on_set_input_value, the text of input_value_edit being a number
on_set_input_value(u, value) ==
    IF u.selected_input_id = NoNode THEN u
    ELSE [u EXCEPT !.staged_input_values =
              [nid \in DOMAIN @ \cup {u.selected_input_id} |->
                  IF nid = u.selected_input_id THEN value ELSE @[nid]]]

\* MainWindow.on_clear_selected_input
on_clear_selected_input(u) ==
    IF u.selected_input_id # NoNode
       /\ u.selected_input_id \in DOMAIN u.staged_input_values
    THEN [u EXCEPT !.staged_input_values[u.selected_input_id] = 0]
    ELSE u

\* MainWindow.on_clear_all_inputs
on_clear_all_inputs(u) ==
    [u EXCEPT !.staged_input_values = [nid \in DOMAIN @ |-> 0]]

\* MainWindow.closeEvent: puts STOP and waits for the worker thread
closeEvent(u) ==
    put([u EXCEPT !.closed = TRUE], Command("STOP", None, None, 0))

\* the slot a delivered signal runs
slot(u, sig) ==
    CASE sig.name = "connection_result" -> on_connection_result(u, sig.ok)
      [] sig.name = "replay_loaded" -> on_replay_loaded(u, sig.exp_id)
      [] sig.name = "live_status_update" -> on_live_status_received(u, sig.tick)
      [] sig.name = "new_frame_data" -> on_new_frame_data(u, sig.frame)
      [] sig.name = "experiment_list" -> on_experiment_list_received(u, ExpIds)
      [] sig.name = "experiment_selected" -> on_experiment_selected(u, sig.exp_id)
      [] OTHER -> u

(***************************************************************************)
(* The actions of the interactive thread.                                  *)
(***************************************************************************)
\* the handler ran: the window's fields and the queue it leaves
Handled(u) ==
    /\ u.puts # <<>> => Len(command_q) + Len(u.puts) <= MaxPending
    /\ command_q' = (IF u.dropped = <<>> THEN command_q
                     ELSE Freeze(command_q, u.dropped[1])) \o u.puts
    /\ selected_exp_id' = u.selected_exp_id
    /\ is_offline_mode' = u.is_offline_mode
    /\ current_display_tick' = u.current_display_tick
    /\ is_playing' = u.is_playing
    /\ timer_active' = u.timer_active
    /\ target_tick' = u.target_tick
    /\ current_item' = u.current_item
    /\ exp_listbox' = u.exp_listbox
    /\ timeline_range' = u.timeline_range
    /\ shown_frame' = u.shown_frame
    /\ controls_enabled' = u.controls_enabled
    /\ playback_enabled' = u.playback_enabled
    /\ step_enabled' = u.step_enabled
    /\ step_back_enabled' = u.step_back_enabled
    /\ closed' = u.closed
    /\ staged_input_values' = u.staged_input_values
    /\ selected_input_id' = u.selected_input_id
    /\ input_bubbles' = u.input_bubbles

WorkerUnchanged ==
    UNCHANGED <<server, controller, data_store, is_offline, is_running,
                initial_log_level, wpc, command, response, new_frame, emitted,
                calls, fault, prev_fault, n_put, gateway, sent_inputs>>

\* the window takes input: it is open, and few signals wait for it
InputTaken == ~closed /\ Len(sig_q) < MaxSignals

\* the step is a gesture of the operator
Gesture ==
    /\ n_ops < MaxOps
    /\ n_ops' = n_ops + 1
    /\ step_failed_playing' = FALSE

\* the playback buttons can be clicked
PlaybackUsable == InputTaken /\ controls_enabled /\ playback_enabled

TimelineValues == timeline_range[1]..timeline_range[2]

\* a queued signal is delivered to its slot
Deliver ==
    /\ ~closed
    /\ sig_q # <<>>
    /\ sig_q' = Tail(sig_q)
    /\ Handled(slot(Window, Head(sig_q)))
    /\ UNCHANGED <<n_ops, step_failed_playing>> /\ WorkerUnchanged

\* playback_timer.timeout
TimerFire ==
    /\ InputTaken
    /\ timer_active
    /\ Handled(on_playback_tick(Window))
    /\ UNCHANGED <<sig_q, n_ops, step_failed_playing>> /\ WorkerUnchanged

\* the operator accepts the connection dialog
OpConnect ==
    /\ InputTaken
    /\ \E details \in {Command("CONNECT", None, None, 0)}
                      \cup {Command("LOAD_FILE", None, p, 0) : p \in FilePaths} :
         Handled(show_connection_dialog(Window, details))
    /\ Gesture
    /\ UNCHANGED sig_q /\ WorkerUnchanged

\* the operator clicks another item of the experiment list
OpSelect ==
    /\ InputTaken /\ controls_enabled
    /\ \E exp_id \in exp_listbox : 
         /\ exp_id # current_item
         /\ Handled(set_current_item(Window, exp_id))
    /\ Gesture
    /\ UNCHANGED sig_q /\ WorkerUnchanged

\* the operator toggles the play/pause button
OpPlayPause ==
    /\ PlaybackUsable
    /\ Handled(IF is_playing THEN pause(Window) ELSE play(Window))
    /\ Gesture
    /\ UNCHANGED sig_q /\ WorkerUnchanged

OpStop ==
    /\ PlaybackUsable
    /\ Handled(stop_playback(Window))
    /\ Gesture
    /\ UNCHANGED sig_q /\ WorkerUnchanged

\* the Jump button, or the scrubber released, at a value of the timeline
OpJump ==
    /\ PlaybackUsable
    /\ \E value \in TimelineValues : Handled(jump_to_tick(Window, value))
    /\ Gesture
    /\ UNCHANGED sig_q /\ WorkerUnchanged

OpPlayUntilSpecified ==
    /\ PlaybackUsable
    /\ \E target \in TimelineValues : Handled(play_until_specified(Window, target))
    /\ Gesture
    /\ UNCHANGED sig_q /\ WorkerUnchanged

OpPlayUntilLatest ==
    /\ PlaybackUsable
    /\ Handled(play_until_latest(Window))
    /\ Gesture
    /\ UNCHANGED sig_q /\ WorkerUnchanged

OpStepForward ==
    /\ PlaybackUsable /\ step_enabled
    /\ Handled(step_forward(Window))
    /\ Gesture
    /\ UNCHANGED sig_q /\ WorkerUnchanged

OpStepBackward ==
    /\ PlaybackUsable /\ step_back_enabled
    /\ Handled(step_backward(Window))
    /\ Gesture
    /\ UNCHANGED sig_q /\ WorkerUnchanged

OpLogLevel ==
    /\ InputTaken
    /\ Handled(on_log_level_changed(Window))
    /\ Gesture
    /\ UNCHANGED sig_q /\ WorkerUnchanged

OpClose ==
    /\ InputTaken
    /\ Handled(closeEvent(Window))
    /\ Gesture
    /\ UNCHANGED sig_q /\ WorkerUnchanged

\* the values the operator types into input_value_edit
StagedValues == {1}

\* the operator clicks an input bubble
OpInputBubble ==
    /\ InputTaken /\ controls_enabled
    /\ \E node_id \in input_bubbles :
         /\ node_id # selected_input_id
         /\ Handled(on_input_bubble_clicked(Window, node_id))
    /\ Gesture
    /\ UNCHANGED sig_q /\ WorkerUnchanged

\* the operator clicks Set with a non-zero number in input_value_edit
OpSetInputValue ==
    /\ InputTaken /\ controls_enabled
    /\ \E value \in StagedValues : Handled(on_set_input_value(Window, value))
    /\ Gesture
    /\ UNCHANGED sig_q /\ WorkerUnchanged

OpClearSelectedInput ==
    /\ InputTaken /\ controls_enabled
    /\ Handled(on_clear_selected_input(Window))
    /\ Gesture
    /\ UNCHANGED sig_q /\ WorkerUnchanged

OpClearAllInputs ==
    /\ InputTaken /\ controls_enabled
    /\ Handled(on_clear_all_inputs(Window))
    /\ Gesture
    /\ UNCHANGED sig_q /\ WorkerUnchanged

\* jump_to_tick_input.setMinimum(0) / setMaximum(9999999): the range of the
\* spin box until _update_timeline_range first sets it, cut to one tick
\* beyond the largest tick of the modelled server
SpinBoxMaximum == MaxTick + 1

\* MainWindow.__init__
WindowInit ==
    /\ selected_exp_id = None
    /\ is_offline_mode = FALSE
    /\ current_display_tick = 0
    /\ is_playing = FALSE
    /\ timer_active = FALSE
    /\ target_tick = NoTick
    /\ current_item = None
    /\ exp_listbox = {}
    /\ timeline_range = <<0, SpinBoxMaximum>>
    /\ shown_frame = NoFrame
    /\ controls_enabled = FALSE
    /\ playback_enabled = FALSE
    /\ step_enabled = TRUE
    /\ step_back_enabled = TRUE
    /\ closed = FALSE
    /\ staged_input_values = NoInputs
    /\ selected_input_id = NoNode
    /\ input_bubbles = {}
    /\ n_ops = 0
    /\ step_failed_playing = FALSE

(***************************************************************************)
(* The gateway (HidraApiClient._request).  One call: session.request meets *)
(* a transport failure or gets a response; _request returns the decoded    *)
(* body or raises.  A body is a JSON object (with or without the fields    *)
(* error, message, title, detail), a JSON value that is not an object, or  *)
(* text that is not JSON.                                                  *)
(***************************************************************************)
Absent == "absent"

HttpResponse(kind, status, form, error, message, title, detail) ==
    [kind |-> kind, status |-> status, form |-> form, error |-> error,
     message |-> message, title |-> title, detail |-> detail]

NoResponse == HttpResponse("none", 0, Absent, Absent, Absent, Absent, Absent)

\* the status codes of the modelled server; response.ok is status < 400
Statuses == {200, 204, 400, 404, 500}
ResponseOk(r) == r.status < 400

\* the responses and transport failures a call can meet
Responses ==
    {HttpResponse("response", st, "object", e, m, t, d) :
        st \in Statuses, e \in {Absent, "ServerError"}, m \in {Absent, "msg"},
        t \in {Absent, "Title"}, d \in {Absent, "detail"}}
    \cup {HttpResponse("response", st, f, Absent, Absent, Absent, Absent) :
            st \in Statuses, f \in {"array", "text"}}
    \cup {HttpResponse(k, 0, Absent, Absent, Absent, Absent, Absent) :
            k \in {"refused", "timeout"}}

\* how a call ends: outcome is "return", "HidraApiException" or the name of
\* another exception; requests counts the calls of session.request
ApiResult(outcome, status_code, error_type, message) ==
    [outcome |-> outcome, status_code |-> status_code,
     error_type |-> error_type, message |-> message, requests |-> 1]

NoResult == [ApiResult("none", 0, Absent, Absent) EXCEPT !.requests = 0]

\* the `except requests.exceptions.RequestException` clause of _request
ConnectionErrorResult ==
    ApiResult("HidraApiException", 503, "ConnectionError", "Failed to connect")

\* HidraApiClient._request, for what session.request met
request(r) ==
    IF r.kind # "response" THEN ConnectionErrorResult
    ELSE IF ~ResponseOk(r)
    THEN CASE r.form = "text" ->
                \* response.json() raises JSONDecodeError; raise_for_status()
                \* raises HTTPError, a RequestException, caught below
                ConnectionErrorResult
           [] r.form = "array" ->
                \* error_data.get on a value that is not a dict
                ApiResult("AttributeError", 0, Absent, Absent)
           [] OTHER ->
                LET error_type == IF r.error # Absent THEN r.error
                                  ELSE IF r.title # Absent THEN r.title
                                  ELSE "UnknownError"
                    message == IF r.message # Absent THEN r.message
                               ELSE IF r.detail # Absent THEN r.detail
                               ELSE "response.text"
                IN  ApiResult("HidraApiException", r.status, error_type, message)
    ELSE IF r.status = 204 THEN ApiResult("return", r.status, Absent, Absent)
    ELSE IF r.form = "text"
    THEN \* response.json() raises JSONDecodeError, a RequestException
         ConnectionErrorResult
    ELSE ApiResult("return", r.status, Absent, Absent)

GatewayInit ==
    /\ http_response = NoResponse
    /\ api_result = NoResult

\* session.request meets a response or a transport failure
ServerResponds ==
    /\ http_response = NoResponse
    /\ http_response' \in Responses
    /\ UNCHANGED <<api_result, wvars, window, n_ops, step_failed_playing,
                   sent_inputs>>

\* _request runs to its return or raise
Request ==
    /\ http_response # NoResponse
    /\ api_result = NoResult
    /\ api_result' = request(http_response)
    /\ UNCHANGED <<http_response, wvars, window, n_ops, step_failed_playing,
                   sent_inputs>>

(***************************************************************************)
(* Spec: the window, the worker and the server together.  The worker runs  *)
(* the commands the window puts.                                           *)
(***************************************************************************)
Init == WorkerInit /\ WindowInit /\ GatewayInit

Next ==
    \/ Deliver
    \/ TimerFire
    \/ OpConnect
    \/ OpSelect
    \/ OpPlayPause
    \/ OpStop
    \/ OpJump
    \/ OpPlayUntilSpecified
    \/ OpPlayUntilLatest
    \/ OpStepForward
    \/ OpStepBackward
    \/ OpLogLevel
    \/ OpClose
    \/ W_STOP
    \/ W_CONNECT
    \/ W_LOAD_FILE
    \/ W_REFRESH_EXPERIMENTS
    \/ W_SELECT_EXPERIMENT
    \/ W_ATOMIC_STEP
    \/ W_ATOMIC_STEP_events
    \/ W_GET_LIVE_STATUS
    \/ W_unrecognised

Spec == Init /\ [][Next]_vars

(***************************************************************************)
(* SpecWorker: the command worker driven by a producer that may put any    *)
(* command on the queue.                                                   *)
(***************************************************************************)
\* the commands the producer chooses from
ProducerCommands ==
    {Command(t, None, None, 0) :
        t \in {"STOP", "CONNECT", "REFRESH_EXPERIMENTS", "CREATE_EXPERIMENT"}}
    \cup {Command("LOAD_FILE", None, p, 0) : p \in FilePaths}
    \cup {Command(t, "A", None, 0) :
            t \in {"CLONE_EXPERIMENT", "DELETE_EXPERIMENT", "RENAME_EXPERIMENT",
                   "SAVE_REPLAY", "REFRESH_HISTORY", "EXECUTE_RUN",
                   "GET_LIVE_STATUS", "SET_LOG_LEVEL"}}
    \cup {Command(t, e, None, 0) :
            t \in {"SELECT_EXPERIMENT", "ATOMIC_STEP"}, e \in ExpIds}

\* command_q.put(cmd) by the producer
Put ==
    /\ n_put < MaxCmds
    /\ Len(command_q) < MaxQueue
    /\ \E cmd \in ProducerCommands :
         command_q' = QueuePut(command_q, [cmd EXCEPT !.seq = n_put + 1])
    /\ n_put' = n_put + 1
    /\ UNCHANGED <<server, controller, data_store, is_offline, is_running,
                   initial_log_level, wpc, command, response, new_frame, sig_q,
                   emitted, calls, fault, prev_fault, uvars>>

InitWorker == WorkerInit /\ WindowInit /\ GatewayInit

NextWorker == Put \/ Worker

SpecWorker == InitWorker /\ [][NextWorker]_vars

(***************************************************************************)
(* The fair specifications.  The playback timer is a QTimer of the         *)
(* interactive thread's event loop and queued signals are events of that   *)
(* loop: a fire that is due and a signal that waits are eventually         *)
(* handled.  The worker thread keeps running its loop.  The operator is    *)
(* under no obligation to make a gesture.                                  *)
(***************************************************************************)
SpecFair ==
    Spec /\ WF_vars(TimerFire) /\ WF_vars(Deliver) /\ WF_vars(Worker)

SpecWorkerFair == SpecWorker /\ WF_vars(Worker)

(***************************************************************************)
(* SpecInputs: the window and the worker, with an operator who connects,   *)
(* selects, stages input values and steps forward.                         *)
(***************************************************************************)
NextInputs ==
    \/ Deliver
    \/ OpConnect
    \/ OpSelect
    \/ OpStepForward
    \/ OpInputBubble
    \/ OpSetInputValue
    \/ OpClearSelectedInput
    \/ OpClearAllInputs
    \/ W_CONNECT
    \/ W_LOAD_FILE
    \/ W_REFRESH_EXPERIMENTS
    \/ W_SELECT_EXPERIMENT
    \/ W_ATOMIC_STEP
    \/ W_ATOMIC_STEP_events

SpecInputs == Init /\ [][NextInputs]_vars

(***************************************************************************)
(* SpecGateway: one call of the gateway against every modelled response.   *)
(***************************************************************************)
InitGateway == WorkerInit /\ WindowInit /\ GatewayInit

NextGateway == ServerResponds \/ Request

SpecGateway == InitGateway /\ [][NextGateway]_vars

(***************************************************************************)
(* Claims about the window and the worker together (Spec).                 *)
(***************************************************************************)
\* C1 (as claimed): once a frame has been displayed for the selected session,
\* and the store holds that session, the displayed tick is a key of the
\* session's frame map.
C1_DisplayedTickStored ==
    (selected_exp_id # None /\ shown_frame # NoFrame
     /\ selected_exp_id \in DOMAIN data_store)
        => current_display_tick \in DOMAIN data_store[selected_exp_id]

\* C2 (as claimed): while the window plays towards a target tick, the
\* displayed tick does not exceed the target.
C2_NeverPastTarget ==
    (is_playing /\ target_tick # NoTick) => current_display_tick <= target_tick

\* C3 (as claimed): after an ATOMIC_STEP reported step_failed while the window
\* was playing, once the worker has nothing left to run and the window nothing
\* left to handle, and the operator has made no gesture since, the window is
\* paused and its timer stopped.
C3_FailedStepPauses ==
    (step_failed_playing /\ wpc = "get" /\ command.type = "ATOMIC_STEP"
     /\ command_q = <<>> /\ sig_q = <<>>)
        => ~is_playing /\ ~timer_active

\* C4 (as claimed): between commands, a live session that holds frames holds
\* one for every tick from its first up to the tick the server has reached.
C4_NoLostTick ==
    (controller /\ ~is_offline /\ wpc = "get") =>
        \A e \in DOMAIN data_store :
            DOMAIN data_store[e] # {} =>
                \A t \in MinOf(DOMAIN data_store[e])..ServerTick(e) :
                    t \in DOMAIN data_store[e]

\* C5 (as claimed): the window never shows a frame it read from the store
\* while the worker had yet to write the frame's events.
C5_NoHalfWrittenFrame ==
    ~(/\ wpc = "captured"
      /\ shown_frame = new_frame
      /\ new_frame.events # ParseEvents(response))

(***************************************************************************)
(* Claims about the command worker (SpecWorker).                           *)
(***************************************************************************)
Completed == wpc = "get" /\ command # NoCommand

CountLevel(sigs, level) ==
    Cardinality({i \in DOMAIN sigs :
                    sigs[i].name = "status_update" /\ sigs[i].level = level})

\* C6: the worker executes the commands one at a time in the order they were
\* put: the command it executes is the one submitted right after the command
\* it executed before, the queue holds exactly the later submissions in their
\* order, a command is taken only when the previous one has ended, and every
\* signal is emitted for the command being executed, so that the signals
\* queued are in submission order of their commands.
C6_SubmissionOrder ==
    /\ [](/\ \A i \in DOMAIN command_q : command_q[i].seq = command.seq + i
          /\ n_put = command.seq + Len(command_q)
          /\ \A i \in DOMAIN sig_q :
               /\ sig_q[i].seq <= command.seq
               /\ i > 1 => sig_q[i - 1].seq <= sig_q[i].seq)
    /\ [][/\ command' # command => wpc = "get" /\ command'.seq = command.seq + 1
          /\ (sig_q' # sig_q \/ data_store' # data_store \/ server' # server)
               => /\ command'.seq > 0
                  /\ \A i \in DOMAIN sig_q' \ DOMAIN sig_q :
                       sig_q'[i].seq = command'.seq]_vars

\* C6 witness: the third command is executing after signals of two earlier
\* commands were emitted
C6_Witness ==
    /\ command.seq = 3
    /\ \E i, j \in DOMAIN sig_q : sig_q[i].seq = 1 /\ sig_q[j].seq = 2

\* C7 (as claimed): every command the worker has finished, other than STOP,
\* emitted exactly one signal, and STOP emitted none.
C7_ExactlyOneEvent ==
    Completed =>
        IF command.type = "STOP" THEN emitted = <<>> ELSE Len(emitted) = 1

\* C8: a command that ends in the loop's `except Exception` has emitted
\* exactly one critical status_update, and leaves the worker running at the
\* top of its loop, able to take the next queued command.
C8_FaultContained ==
    fault =>
        /\ CountLevel(emitted, "critical") = 1
        /\ is_running
        /\ wpc = "get"
        /\ command_q # <<>> => ENABLED Worker

\* C8 witness: the command after a faulted one selected an experiment
C8_Witness ==
    /\ prev_fault /\ ~fault /\ Completed
    /\ command.type = "SELECT_EXPERIMENT"
    /\ \E i \in DOMAIN emitted : emitted[i].name = "experiment_selected"

\* C9: the worker leaves its loop exactly when it takes STOP, which it takes
\* only between commands; STOP emits nothing, and from then on the worker
\* takes no command, writes nothing and emits nothing.
C9_StopExits ==
    /\ [](~is_running <=> (command.type = "STOP"))
    /\ [](~is_running => emitted = <<>> /\ calls = 0 /\ wpc = "get")
    /\ [][~is_running =>
            UNCHANGED <<command, data_store, is_offline, controller, server,
                        sig_q, emitted, calls, wpc, is_running>>]_vars
    /\ [][is_running /\ ~is_running' =>
            wpc = "get" /\ UNCHANGED <<sig_q, data_store, server>>]_vars

\* C9 witness: the worker has exited after executing a command, and a command
\* put behind STOP is still on the queue
C9_Witness ==
    /\ ~is_running
    /\ command.seq = 2
    /\ command_q # <<>>

\* the commands C10 names
C10_Types ==
    {"REFRESH_HISTORY", "ATOMIC_STEP", "EXECUTE_RUN", "REFRESH_EXPERIMENTS",
     "CREATE_EXPERIMENT", "CLONE_EXPERIMENT", "DELETE_EXPERIMENT",
     "RENAME_EXPERIMENT"}

\* C10: a live-only command taken while the controller is offline makes no
\* gateway call, emits nothing and leaves the store and the mode unchanged.
C10_OfflineSkip ==
    [][(controller /\ is_offline /\ command' # command
        /\ command'.type \in C10_Types)
       => /\ emitted' = <<>>
          /\ calls' = 0
          /\ wpc' = "get"
          /\ ~fault'
          /\ UNCHANGED <<data_store, is_offline, controller, server, sig_q>>]_vars

\* C10 witness: an ATOMIC_STEP was skipped on a loaded replay
C10_Witness ==
    /\ controller /\ is_offline /\ Completed
    /\ command.type = "ATOMIC_STEP"
    /\ "A" \in DOMAIN data_store

\* C11 (as claimed): once the controller holds a session loaded from a replay
\* file (offline), no worker command other than CONNECT or LOAD_FILE changes
\* the frame store or the mode.
C11_OfflineSessionFixed ==
    [][(controller /\ is_offline /\ command' # command
        /\ command'.type \notin {"CONNECT", "LOAD_FILE"})
       => UNCHANGED <<data_store, is_offline>>]_vars

\* C12 (as claimed): a REFRESH_HISTORY the worker has finished for a session
\* of a live controller made one gateway call (getFullHistory) and ended
\* either in history_refreshed or, the call having failed, in an error
\* status; it did not end in the loop's `except Exception`.
C12_RefreshReports ==
    (Completed /\ command.type = "REFRESH_HISTORY" /\ controller /\ ~is_offline
     /\ command.exp_id \in DOMAIN data_store)
        => /\ calls = 1
           /\ ~fault
           /\ \E i \in DOMAIN emitted :
                \/ emitted[i].name = "history_refreshed"
                \/ (emitted[i].name = "status_update" /\ emitted[i].level = "error")

\* C13 (as claimed): the frame the window shows since a session was selected
\* is a frame of that session: a result delivered for a session the operator
\* has left is ignored.
C13_StaleResultIgnored ==
    (selected_exp_id # None /\ shown_frame # NoFrame)
        => shown_frame.snapshot.experimentId = selected_exp_id

\* the emission puts a leveled message in the operator's log: status_update
\* (MainWindow.log_message is its slot) and connection_result (whose slot
\* logs the success or the failure)
ReachesLog(sig) == sig.name \in {"status_update", "connection_result"}

\* the command the worker has finished failed: it ended in the loop's
\* `except Exception`, or it emitted a failure result after a gateway call,
\* or an error status
CommandFailed ==
    \/ fault
    \/ \E i \in DOMAIN emitted :
         \/ (~emitted[i].ok /\ calls > 0)
         \/ (emitted[i].name = "status_update"
             /\ emitted[i].level \in {"error", "critical"})

\* C14 (as claimed): every command that failed emitted at least one signal
\* whose slot puts a leveled message in the operator's log.
C14_NoSilentFailure ==
    (Completed /\ CommandFailed) => \E i \in DOMAIN emitted : ReachesLog(emitted[i])

\* the signals hold one of the given name
Emitted(sigs, name) == \E i \in DOMAIN sigs : sigs[i].name = name

\* C15 (as claimed): a LOAD_FILE that emits no replay_loaded leaves in the
\* store no session and no frame that was not there before, and does not
\* switch the mode to offline.
C15_LoadAllOrNothing ==
    [][(command' # command /\ command'.type = "LOAD_FILE"
        /\ ~Emitted(emitted', "replay_loaded"))
       => /\ \A e \in DOMAIN data_store' :
               e \in DOMAIN data_store /\ data_store'[e] = data_store[e]
          /\ is_offline' => is_offline]_vars


\* the command just taken from the queue was a CONNECT or LOAD_FILE that
\* reported success (connection_result ok, or replay_loaded)
SessionCommandSucceeded ==
    \/ /\ command'.type = "CONNECT"
       /\ \E i \in DOMAIN emitted' :
            emitted'[i].name = "connection_result" /\ emitted'[i].ok
    \/ /\ command'.type = "LOAD_FILE"
       /\ Emitted(emitted', "replay_loaded")

\* C16 (as claimed): a successful CONNECT leaves no cached session and a
\* successful LOAD_FILE only the session of the file; a failing CONNECT or
\* LOAD_FILE leaves every previously cached session and the mode as they were.
C16_ReplacedOnlyOnSuccess ==
    [][(command' # command /\ command'.type \in {"CONNECT", "LOAD_FILE"})
       => IF SessionCommandSucceeded
          THEN \A e \in DOMAIN data_store' :
                 /\ command'.type = "LOAD_FILE"
                 /\ \E i \in DOMAIN emitted' : emitted'[i].exp_id = e
          ELSE /\ \A e \in DOMAIN data_store :
                    e \in DOMAIN data_store' /\ data_store'[e] = data_store[e]
               /\ is_offline' = is_offline]_vars


\* C17 (as claimed): for every session holding at least one frame, saving it
\* and loading the written file succeeds and yields a session of the same id
\* with the same ordered frames (tick, snapshot, events).
C17_ReplayRoundTrip ==
    \A e \in DOMAIN data_store :
        DOMAIN data_store[e] # {}
            => LET saved == save_replay_to_file(e)
                   loaded == LoadData(saved.data)
               IN  /\ ~saved.raised
                   /\ loaded.result = e
                   /\ FullHistory(loaded.store, e) = get_full_history(e)


\* two different frames of one tick, neither of which the program stores
ProbeFrame(exp_id, tick) ==
    ReplayFrame(tick, Snapshot(exp_id, tick), <<Event("Probe", None)>>)

OtherProbeFrame(exp_id, tick) ==
    ReplayFrame(tick, Snapshot(exp_id, tick), <<Event("OtherProbe", None)>>)

\* C18: for every session and tick, a store write followed by get_frame of
\* that tick returns the frame written; a second write at the same tick
\* overwrites, so get_full_history is as long as the number of distinct ticks
\* stored; and the frame ATOMIC_STEP has just captured is the one get_frame
\* returns.
C18_PutGetOverwrite ==
    /\ \A e \in DOMAIN data_store :
         /\ Len(get_full_history(e)) = Cardinality(DOMAIN data_store[e])
         /\ \A t \in 0..(MaxTick + 1) :
              LET once == PutFrame(data_store, e, ProbeFrame(e, t))
                  twice == PutFrame(once, e, OtherProbeFrame(e, t))
              IN  /\ FrameAt(once, e, t) = ProbeFrame(e, t)
                  /\ FrameAt(twice, e, t) = OtherProbeFrame(e, t)
                  /\ Len(FullHistory(once, e))
                       = Cardinality(DOMAIN data_store[e] \cup {t})
                  /\ Len(FullHistory(twice, e)) = Len(FullHistory(once, e))
    /\ wpc = "captured" => get_frame(command.exp_id, new_frame.tick) = new_frame

\* a session of two or more ticks into which ATOMIC_STEP has just written
C18_Witness ==
    /\ wpc = "captured"
    /\ command.exp_id \in DOMAIN data_store
    /\ Cardinality(DOMAIN data_store[command.exp_id]) >= 2


\* the ticks is_latest_tick is asked about: below, among and above the stored
QueriedTicks == (-1)..(MaxTick + 2)

\* exp_id is a session of the store that holds a frame
HoldsFrames(exp_id) ==
    exp_id \in DOMAIN data_store /\ DOMAIN data_store[exp_id] # {}

\* C19 (as claimed): is_latest_tick(session, t) is true exactly when t equals
\* the largest stored tick: false for smaller ticks, false for greater ticks,
\* false for an empty or unknown session.
C19_AsClaimed ==
    \A e \in ExpIds, t \in QueriedTicks :
        is_latest_tick(e, t)
            <=> (HoldsFrames(e) /\ t = MaxOf(DOMAIN data_store[e]))

\* C19 (amended): for a stored tick t, is_latest_tick(session, t) is true
\* exactly when t is the largest stored tick; it is false for every tick
\* smaller than the largest stored tick and false for an empty or unknown
\* session.
C19_LatestAmongStored ==
    \A e \in ExpIds, t \in QueriedTicks :
        /\ ~HoldsFrames(e) => ~is_latest_tick(e, t)
        /\ HoldsFrames(e) =>
             /\ t \in DOMAIN data_store[e] =>
                  (is_latest_tick(e, t) <=> t = MaxOf(DOMAIN data_store[e]))
             /\ t < MaxOf(DOMAIN data_store[e]) => ~is_latest_tick(e, t)

\* one session holds frames at two ticks or more while the other experiment
\* has no session
C19_Witness ==
    \E e \in ExpIds :
        /\ HoldsFrames(e)
        /\ Cardinality(DOMAIN data_store[e]) >= 2
        /\ \E o \in ExpIds : ~HoldsFrames(o)

\* C20: for a session that holds a frame, is_latest_tick(session, tick) is
\* true exactly when tick >= the tick of get_latest_frame(session), for every
\* tick, stored or not.
C20_LatestOrBeyond ==
    \A e \in ExpIds, t \in QueriedTicks :
        HoldsFrames(e) => (is_latest_tick(e, t) <=> t >= get_latest_frame(e).tick)

\* a session whose latest frame is below the largest queried tick, so that a
\* tick that is not stored lies beyond it
C20_Witness ==
    \E e \in ExpIds :
        /\ HoldsFrames(e)
        /\ get_latest_frame(e).tick >= 1
        /\ \E t \in QueriedTicks :
             t > get_latest_frame(e).tick /\ t \notin DOMAIN data_store[e]


(***************************************************************************)
(* Claims about the store queries and the playback handlers.               *)
(***************************************************************************)
\* the sequence holds every frame of the map once, in strictly ascending
\* tick order
AscendingOnce(h, history) ==
    /\ Len(h) = Cardinality(DOMAIN history)
    /\ \A t \in DOMAIN history : \E i \in 1..Len(h) : h[i] = history[t]
    /\ \A i, j \in 1..Len(h) : i < j => h[i].tick < h[j].tick

\* C21: get_full_history returns every stored frame of the session once, in
\* strictly ascending tick order, whatever the order the frames were written
\* in, and the frames save_replay_to_file writes are that sequence.
C21_FullHistorySorted ==
    \A e \in DOMAIN data_store :
        /\ AscendingOnce(get_full_history(e), data_store[e])
        /\ \A t1, t2 \in 0..(MaxTick + 1) :
             LET f1 == ProbeFrame(e, t1)
                 f2 == ProbeFrame(e, t2)
                 ab == PutFrame(PutFrame(data_store, e, f1), e, f2)
                 ba == PutFrame(PutFrame(data_store, e, f2), e, f1)
             IN  /\ AscendingOnce(FullHistory(ab, e), ab[e])
                 /\ FullHistory(ab, e) = FullHistory(ba, e)
        /\ DOMAIN data_store[e] # {} =>
             LET h == get_full_history(e)
                 frames == save_replay_to_file(e).data.frames
             IN  /\ Len(frames) = Len(h)
                 /\ \A i \in 1..Len(h) :
                      /\ frames[i].tick = h[i].tick
                      /\ frames[i].snapshot = h[i].snapshot
                      /\ Len(frames[i].events.items) = Len(h[i].events)

\* a session that holds frames at three ticks or more
C21_Witness ==
    \E e \in DOMAIN data_store : Cardinality(DOMAIN data_store[e]) >= 3


TimerStep ==
    /\ InputTaken /\ timer_active
    /\ Len(command_q') >= Len(command_q)
    /\ UNCHANGED <<sig_q, n_ops, wpc, command, emitted, data_store, server>>

\* a command of the given type waits on the queue
Outstanding(q, type) == \E i \in DOMAIN q : q[i].type = type

\* C23 (as claimed): during auto-play without a target, a timer fire whose
\* next tick is cached displays that tick and stays playing; a timer fire
\* whose next tick is absent displays nothing, stops the timer and leaves a
\* REFRESH_HISTORY command outstanding.
C23_AutoPlayBuffers ==
    [][(TimerStep /\ is_playing /\ target_tick = NoTick
        /\ controller /\ selected_exp_id # None)
       => IF get_frame(selected_exp_id, current_display_tick + 1) # NoFrame
          THEN /\ current_display_tick' = current_display_tick + 1
               /\ is_playing'
          ELSE /\ current_display_tick' = current_display_tick
               /\ ~timer_active'
               /\ Outstanding(command_q', "REFRESH_HISTORY")]_vars


\* the step puts a command of the given type on the queue
Puts(type) ==
    /\ Len(command_q') > Len(command_q)
    /\ command_q'[Len(command_q')].type = type

\* the window runs towards a target beyond the largest tick of the server,
\* on a live session
RunsBeyondServer(u_target, u_selected, u_offline) ==
    /\ u_target # NoTick /\ ~u_offline /\ u_selected # None
    /\ u_target > ServerTick(u_selected)

\* C24 (as claimed): a run towards a target beyond the server's largest tick,
\* on a live session, puts one EXECUTE_RUN when the target is set, and no
\* ATOMIC_STEP is put while the window runs towards that target.
C24_RunToTickExecuteRun ==
    [][/\ (target_tick' # target_tick
           /\ RunsBeyondServer(target_tick', selected_exp_id', is_offline_mode'))
          => Outstanding(command_q', "EXECUTE_RUN")
       /\ (is_playing /\ RunsBeyondServer(target_tick, selected_exp_id,
                                          is_offline_mode))
          => ~Puts("ATOMIC_STEP")]_vars


\* the values the spin box can hold
SpinBoxValues == 0..SpinBoxMaximum

\* C25: jump_to_tick(t) leaves auto-play stopped and puts no command; if the
\* frame of t is cached in the selected session, t is the displayed tick and
\* that frame the one shown; if it is absent (as for every t beyond the
\* server's largest tick) the displayed tick and the frame shown are unchanged.
C25_JumpToTick ==
    \A t \in SpinBoxValues :
        LET v == jump_to_tick(Window, t)
            cached == controller /\ selected_exp_id # None
                      /\ get_frame(selected_exp_id, t) # NoFrame
        IN  /\ ~v.is_playing /\ ~v.timer_active
            /\ v.puts = <<>>
            /\ v.selected_exp_id = selected_exp_id
            /\ cached => /\ v.current_display_tick = t
                         /\ v.shown_frame = get_frame(selected_exp_id, t)
            /\ ~cached => /\ v.current_display_tick = current_display_tick
                          /\ v.shown_frame = shown_frame

\* auto-play runs on a live session; a jump to a cached tick other than the
\* displayed one moves the display, a jump beyond the server's largest tick
\* leaves it
C25_Witness ==
    /\ is_playing /\ timer_active /\ ~is_offline_mode
    /\ controller /\ selected_exp_id # None
    /\ \E t \in SpinBoxValues :
         /\ t # current_display_tick
         /\ jump_to_tick(Window, t).current_display_tick = t
    /\ \E t \in SpinBoxValues :
         /\ t > ServerTick(selected_exp_id)
         /\ jump_to_tick(Window, t).current_display_tick = current_display_tick


\* the window plays towards a target that lies beyond the displayed tick and
\* not beyond the largest tick of the server, on a live session
RunsLocally(u_playing, u_target, u_tick, u_selected, u_offline) ==
    /\ u_playing /\ u_target # NoTick /\ ~u_offline
    /\ controller /\ u_selected # None
    /\ u_tick < u_target /\ u_target <= ServerTick(u_selected)

\* C26 (as claimed), the commands: the step that sets a target beyond the
\* displayed tick and within the server's ticks, and starts playing towards
\* it, puts no ATOMIC_STEP and no EXECUTE_RUN.
C26_LocalReplayNoCommands ==
    [][(target_tick' # target_tick
        /\ RunsLocally(is_playing', target_tick', current_display_tick',
                       selected_exp_id', is_offline_mode'))
       => (~Puts("ATOMIC_STEP") /\ ~Puts("EXECUTE_RUN"))]_vars


(***************************************************************************)
(* Claims about the gateway (SpecGateway).                                 *)
(***************************************************************************)
\* the error kind and message the body of a response names, title and detail
\* taking the place of an absent error and message
BodyErrorKind(r) ==
    IF r.error # Absent THEN r.error
    ELSE IF r.title # Absent THEN r.title ELSE "UnknownError"

BodyMessage(r) ==
    IF r.message # Absent THEN r.message
    ELSE IF r.detail # Absent THEN r.detail ELSE "response.text"

\* C27 (as claimed): a call that got a response with a non-OK status raises
\* HidraApiException with the status code of the response and the error kind
\* and message of its body; only a transport failure gives the
\* ConnectionError form; one request is sent per call.
C27_ErrorMapping ==
    api_result # NoResult =>
        /\ api_result.requests = 1
        /\ (http_response.kind = "response" /\ ~ResponseOk(http_response)) =>
             /\ api_result.outcome = "HidraApiException"
             /\ api_result.status_code = http_response.status
             /\ http_response.form = "object" =>
                  /\ api_result.error_type = BodyErrorKind(http_response)
                  /\ api_result.message = BodyMessage(http_response)
        /\ api_result.error_type = "ConnectionError" =>
             http_response.kind # "response"


(***************************************************************************)
(* Claims about event normalisation and the playback buttons.              *)
(***************************************************************************)
\* the parsed event is a mapping (a dict), not another JSON value
IsMapping(event) == event.type # "$number"

\* raw events values of every modelled form, for the parser alone
RawSamples ==
    {RawList(<<>>),
     RawList(<<RawDict("Spike"), RawBadStr("oops"), RawJson("Fire")>>),
     RawValues(<<RawBadStr("oops"), RawDict("Spike")>>),
     RawValues(<<RawNumber("7"), RawDict("Spike"), RawNumber("8")>>)}

\* C28 (as claimed): _parse_events gives, for a string that is not JSON, one
\* InvalidEventFormat record carrying the string, keeps the dict and string
\* elements in their order, and every event it returned, in the parser's
\* samples and in the frames of the store, is a mapping.
C28_ParsedEventsAreRecords ==
    /\ ParseEvents(RawList(<<RawDict("Spike"), RawBadStr("oops"), RawJson("Fire")>>))
         = <<Event("Spike", None), Event("InvalidEventFormat", "oops"),
             Event("Fire", None)>>
    /\ \A raw \in RawSamples :
         \A i \in DOMAIN ParseEvents(raw) : IsMapping(ParseEvents(raw)[i])
    /\ \A e \in DOMAIN data_store :
         \A t \in DOMAIN data_store[e] :
            \A i \in DOMAIN data_store[e][t].events :
               IsMapping(data_store[e][t].events[i])


\* C29 (as claimed): pressing Play while paused leaves the window playing
\* with the timer started, and if the frame of current_display_tick + 1 is
\* cached in the selected session, that tick is displayed when the handler
\* returns.
C29_PlayAdvancesAtOnce ==
    (~is_playing /\ ~closed /\ controls_enabled /\ playback_enabled)
        => LET v == play(Window)
           IN  /\ v.is_playing /\ v.timer_active
               /\ (controller /\ selected_exp_id # None
                   /\ get_frame(selected_exp_id, current_display_tick + 1) # NoFrame)
                  => v.current_display_tick = current_display_tick + 1


\* C30: stop_playback leaves the window paused with the timer stopped and
\* the target cleared, displaying the earliest cached tick of the selected
\* session when it has frames; pausing stops the timer and leaves the
\* displayed tick and the target as they are; a timer fire while the window
\* is not playing changes neither the display, the target nor the queue.
C30_StopPauseIdleFire ==
    /\ LET v == stop_playback(Window)
       IN  /\ ~v.is_playing /\ ~v.timer_active
           /\ v.target_tick = NoTick
           /\ v.puts = <<>>
           /\ (controller /\ selected_exp_id # None
               /\ get_first_frame(selected_exp_id) # NoFrame)
              => /\ v.current_display_tick = get_first_frame(selected_exp_id).tick
                 /\ v.shown_frame = get_first_frame(selected_exp_id)
    /\ LET v == pause(Window)
       IN  /\ ~v.is_playing /\ ~v.timer_active
           /\ v.current_display_tick = current_display_tick
           /\ v.shown_frame = shown_frame
           /\ v.target_tick = target_tick
           /\ v.puts = <<>>
    /\ ~is_playing =>
         LET v == on_playback_tick(Window)
         IN  /\ ~v.is_playing /\ ~v.timer_active
             /\ v.current_display_tick = current_display_tick
             /\ v.shown_frame = shown_frame
             /\ v.target_tick = target_tick
             /\ v.puts = <<>>

\* the window plays towards a target and displays a tick other than the
\* earliest cached one, so that stopping moves the display and clears the
\* target
C30_Witness ==
    /\ is_playing /\ timer_active /\ target_tick # NoTick
    /\ controller /\ selected_exp_id # None
    /\ get_first_frame(selected_exp_id) # NoFrame
    /\ stop_playback(Window).current_display_tick # current_display_tick
    /\ pause(Window).target_tick = target_tick

(***************************************************************************)
(* Claims about stepping, selection and staged inputs.                     *)
(***************************************************************************)
\* the Step Fwd button can be clicked
StepUsable == ~closed /\ controls_enabled /\ playback_enabled /\ step_enabled

\* the selected session is live and the displayed tick is its latest cached
\* tick
LiveAtLatest ==
    /\ controller /\ selected_exp_id # None /\ ~is_offline_mode
    /\ HoldsFrames(selected_exp_id)
    /\ current_display_tick = get_latest_frame(selected_exp_id).tick

\* the selected session is live and is_latest_tick holds of the displayed
\* tick: it is the latest cached tick of the session, or lies beyond it
LiveAtOrBeyondLatest ==
    /\ controller /\ selected_exp_id # None /\ ~is_offline_mode
    /\ is_latest_tick(selected_exp_id, current_display_tick)

SelectionCompleted(v, id) ==
    /\ v.selected_exp_id = id
    /\ HoldsFrames(id)
    /\ v.current_display_tick
         = (IF v.is_offline_mode THEN get_first_frame(id).tick
            ELSE get_latest_frame(id).tick)
    /\ v.shown_frame.snapshot.experimentId = id

\* C33 (as claimed): select_experiment for another session leaves auto-play
\* stopped and the staged inputs cleared; and when the selection completes
\* (on_experiment_selected has run for the session: on delivery of
\* experiment_selected when live, of replay_loaded when offline) the
\* displayed tick is a cached tick of that session, the latest if the window
\* is live, the earliest if offline, not a tick displayed before.
C33_SelectSession ==
    /\ \A id \in ExpIds :
         id # selected_exp_id =>
            LET v == select_experiment(Window, id)
            IN  /\ ~v.is_playing /\ ~v.timer_active
                /\ v.selected_input_id = NoNode
                /\ \A nid \in DOMAIN v.staged_input_values :
                     v.staged_input_values[nid] = 0
    /\ (sig_q # <<>> /\ ~closed
        /\ Head(sig_q).name \in {"experiment_selected", "replay_loaded"}) =>
         SelectionCompleted(slot(Window, Head(sig_q)), Head(sig_q).exp_id)


\* the two stores hold the same sessions with the same frame maps, session
\* id apart
OthersUntouched(before, after, id) ==
    /\ DOMAIN after \ {id} = DOMAIN before \ {id}
    /\ \A e \in DOMAIN before \ {id} : after[e] = before[e]

\* C34: for every session id and every outcome of its gateway calls,
\* connect(id) (the SELECT_EXPERIMENT command) adds, replaces or removes the
\* frame map of id only, and disconnect(id) removes that of id only: every
\* other cached session keeps its frame map; and a SELECT_EXPERIMENT the
\* worker has run left the other sessions cached.
C34_OtherSessionsKept ==
    /\ \A id \in ExpIds :
         /\ \A status_ok, history_ok \in BOOLEAN :
              OthersUntouched(data_store,
                              connect(id, status_ok, history_ok).store, id)
         /\ connect(id, TRUE, TRUE).store[id] = HistoryFrames(id)
         /\ OthersUntouched(data_store, disconnect(id), id)
         /\ id \notin DOMAIN disconnect(id)
    /\ [][(command' # command /\ command'.type = "SELECT_EXPERIMENT")
          => OthersUntouched(data_store, data_store', command'.exp_id)]_vars

\* the worker has run SELECT_EXPERIMENT for a session while another session
\* is cached with frames
C34_Witness ==
    /\ Completed /\ command.type = "SELECT_EXPERIMENT"
    /\ Emitted(emitted, "experiment_selected")
    /\ \E e \in DOMAIN data_store \ {command.exp_id} : DOMAIN data_store[e] # {}


\* the ATOMIC_STEP commands outstanding: waiting on the queue, being executed
\* by the worker, or executed with their new_frame_data not yet handled by
\* the window
StepsOutstanding ==
    Cardinality({i \in DOMAIN command_q : command_q[i].type = "ATOMIC_STEP"})
    + (IF wpc = "captured" THEN 1 ELSE 0)
    + Cardinality({i \in DOMAIN sig_q : sig_q[i].name = "new_frame_data"})

\* C35 (as claimed): during auto-play on a live session, a timer fire that
\* occurs while an ATOMIC_STEP is outstanding puts no other ATOMIC_STEP on
\* the queue.
C35_OneStepOutstanding ==
    [][(TimerStep /\ is_playing /\ ~is_offline_mode /\ StepsOutstanding >= 1)
       => ~Puts("ATOMIC_STEP")]_vars


\* C36 (as claimed): the inputs an ATOMIC_STEP's atomic_step call was made
\* with are the input values that were staged when the command was put.
C36_InputsAsStaged ==
    (command.type = "ATOMIC_STEP" /\ calls >= 1) => sent_inputs = command.requested


\* C37 (as claimed): a SELECT_EXPERIMENT executed with a controller in place
\* that does not end in experiment_selected (connect returned False) leaves
\* the frame store and the mode flag as they were before the command.
C37_FailedSelectKeepsStore ==
    [][(command' # command /\ command'.type = "SELECT_EXPERIMENT" /\ controller
        /\ ~Emitted(emitted', "experiment_selected"))
       => UNCHANGED <<data_store, is_offline>>]_vars


\* C38 (as claimed): whenever the window plays an offline session without a
\* target, it is eventually paused with the timer stopped.
C38_OfflinePlayComesToRest ==
    (is_offline_mode /\ is_playing /\ target_tick = NoTick)
        ~> (~is_playing /\ ~timer_active)


\* C39: worker termination.  Every gateway call and file operation returns
\* (with a result or an exception), and the worker thread keeps running its
\* loop.  Once STOP is on the command queue the worker eventually leaves its
\* loop; it takes the commands one by one in the order of their submission,
\* each only after the one before has ended, so that when it has left the
\* loop on STOP every command submitted before that STOP has been executed
\* exactly once and none of them is on the queue any more; the wait of
\* closeEvent for the worker thread then returns.
C39_WorkerTerminates ==
    /\ (\E i \in DOMAIN command_q : command_q[i].type = "STOP") ~> ~is_running
    /\ [](~is_running =>
            /\ command.type = "STOP"
            /\ wpc = "get"
            /\ \A i \in DOMAIN command_q : command_q[i].seq > command.seq)
    /\ [][command' # command =>
            /\ is_running /\ wpc = "get"
            /\ command_q # <<>>
            /\ command' = Head(command_q)
            /\ command_q' = Tail(command_q)
            /\ command'.seq = command.seq + 1]_vars

\* C39 witness: the worker has left its loop on a STOP that was submitted
\* third, behind two commands that made gateway calls or read a file
C39_Witness ==
    /\ ~is_running
    /\ command.type = "STOP"
    /\ command.seq = 3
    /\ data_store # EmptyStore

====
